---------------------------- MODULE Spec2Model ----------------------------
(***************************************************************************)
(* Siegfried screening pipeline: the ratio functions, the statement label  *)
(* lookup, the two screeners and the equal-weight allocator of             *)
(*   src/Dao_of_capital.py      (prefix Dao_)                              *)
(*   src/Mark_Spitznagelf.py    (prefix Mark_)                             *)
(*   src/Collect_data_mini.py   (prefix Mini_)                             *)
(* Money amounts are small integers; a float result is an exact rational   *)
(* n/d or one of the IEEE specials nan, inf, -inf, or the exception the    *)
(* call raised.                                                            *)
(***************************************************************************)
EXTENDS Integers, Sequences, FiniteSets, TLC

VARIABLES
    rc,         \* ratio engine: the last call [fn, inc, bal, cap, ieee, ret]
    lc,         \* label lookup: the last call [series, keywords, out, printed, after]
    script,     \* screener: which script runs, "Dao" or "Mark"
    universe,   \* screener: the ticker list as given (input order)
    order,      \* screener: the order the loop visits the tickers in
    idx,        \* screener: how many tickers of order are done
    picks,      \* screener: the rows collected so far
    facts,      \* screener: per ticker, what its data was and how it ended
    result,     \* screener: the table returned
    pc,         \* screener: "loop", "done" or "aborted"
    cash,       \* Portfolio.cash
    positions,  \* Portfolio.positions: ticker -> shares held (0: not held)
    lastPicks,  \* allocator: the candidate tickers of the last run
    quote,      \* the price source: ticker -> last close
    orders,     \* allocator: the orders the last run emitted
    executed,   \* number of calls of Broker.execute
    ran         \* whether target_equal_weight or rebalance_job has run

vars == <<rc, lc, script, universe, order, idx, picks, facts, result, pc,
          cash, positions, lastPicks, quote, orders, executed, ran>>

ratioVars  == <<rc>>
labelVars  == <<lc>>
screenVars == <<script, universe, order, idx, picks, facts, result, pc>>
portVars   == <<cash, positions, lastPicks, quote, orders, executed, ran>>

---------------------------------------------------------------------------
(* Bounds of the model *)
MaxAmount == 2

(* Program constants, in percent *)
TAX_RATE_PCT == 21
FR_THRESHOLD_PCT == 75
ROIC_THRESHOLD_PCT == 100
POSITION_MAX_PCT == 15
PORTFOLIO_EQUITY == 100000
Mark_TAX_RATE_PCT == 21
Mark_FR_THRESHOLD_PCT == 70
Mark_ROIC_THRESHOLD_PCT == 100
Mini_TAX_RATE_PCT == 21

---------------------------------------------------------------------------
(* Statement values: a field of a statement is absent (no such key, no    *)
(* matching label), present without a value (NaN) or a number.            *)
Val(v)  == [t |-> "num", v |-> v]
AbsentV == [t |-> "absent", v |-> 0]
NaNV    == [t |-> "nan", v |-> 0]
RaiseV  == [t |-> "raise", v |-> 0]

Amounts   == (0 - MaxAmount)..MaxAmount
FieldVals == {AbsentV, NaNV} \cup {Val(v) : v \in Amounts}

(* Float results *)
Abs(x) == IF x < 0 THEN 0 - x ELSE x

RECURSIVE Gcd(_, _)
Gcd(a, b) == IF b = 0 THEN a ELSE Gcd(b, a % b)

Num(n, d) ==
    LET g == Gcd(Abs(n), Abs(d))
        s == IF d < 0 THEN 0 - 1 ELSE 1
    IN  [k |-> "num", n |-> (s * n) \div g, d |-> (s * d) \div g]
NaN    == [k |-> "nan", n |-> 0, d |-> 1]
PosInf == [k |-> "inf", n |-> 1, d |-> 0]
NegInf == [k |-> "ninf", n |-> 0 - 1, d |-> 0]
Raised(exc) == [k |-> exc, n |-> 0, d |-> 1]

IsRaised(r) == r.k \notin {"num", "nan", "inf", "ninf"}
IsFinite(r) == r.k = "num"

\* r > pct/100 and r < pct/100 as float comparisons (False with nan)
GtPct(r, pct) ==
    \/ r.k = "inf"
    \/ r.k = "num" /\ r.n * 100 > pct * r.d
LtPct(r, pct) ==
    \/ r.k = "ninf"
    \/ r.k = "num" /\ r.n * 100 < pct * r.d

\* a <= b for the values sort_values orders (nan last)
Leq(a, b) ==
    CASE b.k = "nan" -> TRUE
      [] a.k = "nan" -> FALSE
      [] a.k = "ninf" -> TRUE
      [] b.k = "ninf" -> FALSE
      [] b.k = "inf" -> TRUE
      [] a.k = "inf" -> FALSE
      [] OTHER -> a.n * b.d <= b.n * a.d

\* pandas Series.get(key, default)
Get(field, default) == IF field.t = "absent" THEN default ELSE field

\* float +, - on statement values (nan propagates)
FAdd(a, b) == IF a.t = "nan" \/ b.t = "nan" THEN NaNV ELSE Val(a.v + b.v)
FSub(a, b) == IF a.t = "nan" \/ b.t = "nan" THEN NaNV ELSE Val(a.v - b.v)

\* Python truth value of a float: only 0.0 is false (nan is true)
Truthy(a) == ~(a.t = "num" /\ a.v = 0)

\* (num * scale / 100) / den where den is not zero
Quot(num, scale, den) ==
    IF num.t = "nan" \/ den.t = "nan" THEN NaN
    ELSE Num(num.v * scale, 100 * den.v)

\* the same division where den may be zero: numpy scalars follow IEEE 754
\* (with a warning), Python numbers raise ZeroDivisionError
Divide(num, scale, den, ieee) ==
    IF den.t = "num" /\ den.v = 0
    THEN IF ~ieee THEN Raised("ZeroDivisionError")
         ELSE IF num.t = "nan" \/ num.v = 0 THEN NaN
         ELSE IF num.v > 0 THEN PosInf ELSE NegInf
    ELSE Quot(num, scale, den)

---------------------------------------------------------------------------
(* Ratio engine, src/Dao_of_capital.py *)

Dao_get_market_cap(info) ==
    IF info.t = "raise" THEN NaNV ELSE Get(info, NaNV)

Dao_cash_default == Val(0)

Dao_compute_roic(inc, bal) ==
    LET nopat == Get(inc.OperatingIncome, NaNV)
        invested_cap == FSub(FAdd(Get(bal.TotalDebt, NaNV), Get(bal.TotalEquity, NaNV)),
                             Get(bal.CashAndEquivalents, Dao_cash_default))
    IN  IF Truthy(invested_cap)
        THEN Quot(nopat, 100 - TAX_RATE_PCT, invested_cap)
        ELSE NaN

Dao_compute_faustmann_ratio(mkt_cap, bal) ==
    LET net_worth == FSub(Get(bal.TotalAssets, NaNV), Get(bal.TotalLiabilities, NaNV))
    IN  IF Truthy(net_worth) THEN Quot(mkt_cap, 100, net_worth) ELSE NaN

(* Ratio engine, src/Mark_Spitznagelf.py *)

\* info.get("marketCap", 0); an error of the fetch propagates
Mark_get_market_cap(info) == Get(info, Val(0))

\* find_index_label on a statement whose labels are canonical: a field with
\* no matching label raises KeyError
Mark_missing(fields) == \E f \in fields : f.t = "absent"

Mark_compute_roic(inc, bal, ieee) ==
    IF Mark_missing({inc.OperatingIncome, bal.TotalDebt, bal.TotalEquity,
                     bal.CashAndEquivalents})
    THEN Raised("KeyError")
    ELSE LET nopat == inc.OperatingIncome
             invested_cap == FSub(FAdd(bal.TotalDebt, bal.TotalEquity),
                                  bal.CashAndEquivalents)
         IN  Divide(nopat, 100 - Mark_TAX_RATE_PCT, invested_cap, ieee)

Mark_compute_faustmann(mkt_cap, bal, ieee) ==
    IF Mark_missing({bal.TotalAssets, bal.TotalLiabilities})
    THEN Raised("KeyError")
    ELSE LET net_worth == FSub(bal.TotalAssets, bal.TotalLiabilities)
         IN  Divide(mkt_cap, 100, net_worth, ieee)

(* Ratio engine, src/Collect_data_mini.py *)

Mini_get_market_cap(info) == Get(info, Val(0))

Mini_compute_roic(inc, bal, ieee) ==
    IF \E f \in {inc.OperatingIncome, bal.TotalDebt, bal.TotalEquity,
                 bal.CashAndEquivalents} : f.t = "absent"
    THEN Raised("KeyError")
    ELSE LET nopat == inc.OperatingIncome
             invested_cap == FSub(FAdd(bal.TotalDebt, bal.TotalEquity),
                                  bal.CashAndEquivalents)
         IN  Divide(nopat, 100 - Mini_TAX_RATE_PCT, invested_cap, ieee)

Mini_compute_faustmann(mkt_cap, bal, ieee) ==
    IF \E f \in {bal.TotalAssets, bal.TotalLiabilities} : f.t = "absent"
    THEN Raised("KeyError")
    ELSE LET net_worth == FSub(bal.TotalAssets, bal.TotalLiabilities)
         IN  Divide(mkt_cap, 100, net_worth, ieee)

---------------------------------------------------------------------------
(* The ratio engine called once on inputs drawn from bounded sets *)

Incomes == [OperatingIncome : FieldVals]
RoicBalances ==
    [TotalDebt : FieldVals, TotalEquity : FieldVals, CashAndEquivalents : FieldVals,
     TotalAssets : {Val(1)}, TotalLiabilities : {Val(0)}]
FrBalances ==
    [TotalDebt : {Val(1)}, TotalEquity : {Val(0)}, CashAndEquivalents : {Val(0)},
     TotalAssets : FieldVals, TotalLiabilities : FieldVals]
NoIncome == [OperatingIncome |-> Val(0)]
\* what yfinance's info holds under "marketCap": nothing, or a number
CapInfos == {AbsentV} \cup {Val(v) : v \in 0..MaxAmount}

RoicFns == {"Dao_compute_roic", "Mark_compute_roic", "Mini_compute_roic"}
FrFns == {"Dao_compute_faustmann_ratio", "Mark_compute_faustmann", "Mini_compute_faustmann"}

NoCall == [fn |-> "none", inc |-> NoIncome, bal |-> CHOOSE b \in FrBalances : TRUE,
           info |-> AbsentV, ieee |-> TRUE, ret |-> NaN]

Call_Dao_compute_roic ==
    /\ rc.fn = "none"
    /\ \E inc \in Incomes, bal \in RoicBalances :
         rc' = [fn |-> "Dao_compute_roic", inc |-> inc, bal |-> bal, info |-> AbsentV,
                ieee |-> TRUE, ret |-> Dao_compute_roic(inc, bal)]
    /\ UNCHANGED <<labelVars, screenVars, portVars>>

Call_Mark_compute_roic ==
    /\ rc.fn = "none"
    /\ \E inc \in Incomes, bal \in RoicBalances, ieee \in BOOLEAN :
         rc' = [fn |-> "Mark_compute_roic", inc |-> inc, bal |-> bal, info |-> AbsentV,
                ieee |-> ieee, ret |-> Mark_compute_roic(inc, bal, ieee)]
    /\ UNCHANGED <<labelVars, screenVars, portVars>>

Call_Mini_compute_roic ==
    /\ rc.fn = "none"
    /\ \E inc \in Incomes, bal \in RoicBalances, ieee \in BOOLEAN :
         rc' = [fn |-> "Mini_compute_roic", inc |-> inc, bal |-> bal, info |-> AbsentV,
                ieee |-> ieee, ret |-> Mini_compute_roic(inc, bal, ieee)]
    /\ UNCHANGED <<labelVars, screenVars, portVars>>

Call_Dao_compute_faustmann_ratio ==
    /\ rc.fn = "none"
    /\ \E info \in CapInfos, bal \in FrBalances :
         rc' = [fn |-> "Dao_compute_faustmann_ratio", inc |-> NoIncome, bal |-> bal,
                info |-> info, ieee |-> TRUE,
                ret |-> Dao_compute_faustmann_ratio(Dao_get_market_cap(info), bal)]
    /\ UNCHANGED <<labelVars, screenVars, portVars>>

Call_Mark_compute_faustmann ==
    /\ rc.fn = "none"
    /\ \E info \in CapInfos, bal \in FrBalances, ieee \in BOOLEAN :
         rc' = [fn |-> "Mark_compute_faustmann", inc |-> NoIncome, bal |-> bal,
                info |-> info, ieee |-> ieee,
                ret |-> Mark_compute_faustmann(Mark_get_market_cap(info), bal, ieee)]
    /\ UNCHANGED <<labelVars, screenVars, portVars>>

Call_Mini_compute_faustmann ==
    /\ rc.fn = "none"
    /\ \E info \in CapInfos, bal \in FrBalances, ieee \in BOOLEAN :
         rc' = [fn |-> "Mini_compute_faustmann", inc |-> NoIncome, bal |-> bal,
                info |-> info, ieee |-> ieee,
                ret |-> Mini_compute_faustmann(Mini_get_market_cap(info), bal, ieee)]
    /\ UNCHANGED <<labelVars, screenVars, portVars>>

---------------------------------------------------------------------------
(* Statement Normalizer: find_index_label.  A label or keyword is a       *)
(* sequence of one-character strings.                                      *)

MaxLabelLen == 2
MaxLabels == 2

LabelChars == {"a", "B"}
Labels == UNION {[1..n -> LabelChars] : n \in 1..MaxLabelLen}
SeriesIndexes == UNION {[1..n -> Labels] : n \in 0..MaxLabels}
KeywordPool == {<<"a">>, <<"b">>, <<"B">>, <<"a", "b">>, <<"b", "a">>, <<"b", "b">>}
KeywordLists == UNION {[1..n -> KeywordPool] : n \in 0..2}

\* str.lower()
LowerChar(c) == IF c = "A" THEN "a" ELSE IF c = "B" THEN "b" ELSE c
lower(s) == [i \in 1..Len(s) |-> LowerChar(s[i])]

\* Python's  k in low  on strings
SubstringOf(k, low) ==
    \E i \in 0..(Len(low) - Len(k)) : SubSeq(low, i + 1, i + Len(k)) = k

\* a lookup that is content with one keyword: any(k in low for k in keywords)
AnyKeywordIn(keywords, low) ==
    \E j \in 1..Len(keywords) : SubstringOf(keywords[j], low)

\* all(k in low for k in keywords)
AllKeywordsIn(keywords, low) ==
    \A j \in 1..Len(keywords) : SubstringOf(keywords[j], low)

\* the for loop over series.index, from position i on
RECURSIVE ScanLabels(_, _, _)
ScanLabels(index, keywords, i) ==
    IF i > Len(index)
    THEN [kind |-> "KeyError", label |-> <<>>, keywords |-> keywords, printed |-> index]
    ELSE IF AllKeywordsIn(keywords, lower(index[i]))
         THEN [kind |-> "return", label |-> index[i], keywords |-> <<>>, printed |-> <<>>]
         ELSE ScanLabels(index, keywords, i + 1)

find_index_label(index, keywords) == ScanLabels(index, keywords, 1)

Mini_find_index_label(index, keywords) == ScanLabels(index, keywords, 1)

NoLookup == [fn |-> "none", series |-> <<>>, keywords |-> <<>>, after |-> <<>>,
             out |-> [kind |-> "none", label |-> <<>>, keywords |-> <<>>, printed |-> <<>>]]

Call_find_index_label ==
    /\ lc.fn = "none"
    /\ \E index \in SeriesIndexes, keywords \in KeywordLists :
         lc' = [fn |-> "find_index_label", series |-> index, keywords |-> keywords,
                after |-> index, out |-> find_index_label(index, keywords)]
    /\ UNCHANGED <<ratioVars, screenVars, portVars>>

Call_Mini_find_index_label ==
    /\ lc.fn = "none"
    /\ \E index \in SeriesIndexes, keywords \in KeywordLists :
         lc' = [fn |-> "Mini_find_index_label", series |-> index, keywords |-> keywords,
                after |-> index, out |-> Mini_find_index_label(index, keywords)]
    /\ UNCHANGED <<ratioVars, screenVars, portVars>>

---------------------------------------------------------------------------
(* Screener: SiegfriedScreener (Dao) and screen_universe (Mark) *)

MaxUniverse == 3

Tickers == 1..MaxUniverse

\* what the data sources hold for one ticker: whether fetching the
\* statements raises, the statements, yfinance's info, and whether the
\* statement values are numpy scalars (IEEE division) or Python numbers
ScreenDataOf(numerics) ==
    [fetch : {"ok"},
     inc   : [OperatingIncome : {AbsentV, Val(1), Val(2)}],
     bal   : [TotalDebt : {Val(1)}, TotalEquity : {Val(0)},
              CashAndEquivalents : {AbsentV, Val(0), Val(1)},
              TotalAssets : {Val(2)}, TotalLiabilities : {Val(0), Val(2), Val(4)}],
     info  : {RaiseV, AbsentV, Val(1), Val(2)},
     ieee  : numerics]
ScreenData == ScreenDataOf(BOOLEAN)
\* the Dao script divides only by a denominator it has tested, so the kind
\* of number makes no difference to it
Dao_ScreenData == ScreenDataOf({TRUE})
FetchFails ==
    [fetch |-> "raise", inc |-> NoIncome, bal |-> CHOOSE b \in FrBalances : TRUE,
     info |-> AbsentV, ieee |-> TRUE]

Row(tkr, roic, fr) == [ticker |-> tkr, roic |-> roic, fr |-> fr]

\* outcomes of the work on one ticker
Skip == [kind |-> "skip", rows |-> <<>>]
Abort == [kind |-> "raise", rows |-> <<>>]
Pick(row) == [kind |-> "row", rows |-> <<row>>]

\* SiegfriedScreener._evaluate_ticker: None (Skip) or the row
Dao_evaluate_ticker(tkr, d) ==
    IF d.fetch = "raise" THEN Skip
    ELSE LET roic_val == Dao_compute_roic(d.inc, d.bal)
             fr_val == Dao_compute_faustmann_ratio(Dao_get_market_cap(d.info), d.bal)
         IN  IF roic_val.k = "nan" THEN Skip
             ELSE IF fr_val.k = "nan" THEN Skip
             ELSE IF GtPct(roic_val, ROIC_THRESHOLD_PCT) /\ LtPct(fr_val, FR_THRESHOLD_PCT)
                  THEN Pick(Row(tkr, roic_val, fr_val))
                  ELSE Skip

\* the body of the for loop of screen_universe
Mark_loop_body(tkr, d) ==
    IF d.fetch = "raise" THEN Skip
    ELSE LET roic == Mark_compute_roic(d.inc, d.bal, d.ieee)
             fr == Mark_compute_faustmann(Mark_get_market_cap(d.info), d.bal, d.ieee)
         IN  IF roic.k = "KeyError" THEN Skip
             ELSE IF IsRaised(roic) THEN Abort
             ELSE IF d.info.t = "raise" THEN Abort
             ELSE IF fr.k = "KeyError" THEN Skip
             ELSE IF IsRaised(fr) THEN Abort
             ELSE IF GtPct(roic, Mark_ROIC_THRESHOLD_PCT) /\ LtPct(fr, Mark_FR_THRESHOLD_PCT)
                  THEN Pick(Row(tkr, roic, fr))
                  ELSE Skip

\* the orders a list can come out in
Perms(s) ==
    {p \in [1..Len(s) -> 1..Len(s)] : \A i, j \in 1..Len(s) : p[i] = p[j] => i = j}
Arrangements(s) == {[i \in 1..Len(s) |-> s[p[i]]] : p \in Perms(s)}

IsSorted(rows) == \A i \in 1..(Len(rows) - 1) : Leq(rows[i].fr, rows[i + 1].fr)

\* a sort that leaves the rows as they were collected
sort_values_as_collected(rows, columns, by) ==
    IF by \notin columns THEN {[status |-> "KeyError", table |-> <<>>]}
    ELSE {[status |-> "ok", table |-> rows]}

\* DataFrame.sort_values(column): KeyError when the frame has no such column;
\* kind is left at its default, quicksort, which pandas documents as not
\* stable: rows with equal keys come out in any order
sort_values(rows, columns, by) ==
    IF by \notin columns THEN {[status |-> "KeyError", table |-> <<>>]}
    ELSE {[status |-> "ok", table |-> t] : t \in {a \in Arrangements(rows) : IsSorted(a)}}

\* pd.DataFrame(list of dicts): the columns are the keys of the dicts
FrameColumns(rows) == IF rows = <<>> THEN {} ELSE {"ticker", "roic", "faustmann"}

\* the last two lines of SiegfriedScreener.run
Dao_run_return(rows) ==
    IF rows # <<>> THEN sort_values(rows, FrameColumns(rows), "faustmann")
    ELSE {[status |-> "ok", table |-> rows]}

\* the last two lines of screen_universe
Mark_screen_return(rows) == sort_values(rows, {"ticker", "roic", "fr"}, "fr")

\* list(set(universe)): the set's iteration order is any order
Dao_init_universe(u) == Arrangements(u)

(* What the data of one ticker was *)
NetWorthNegative(d) ==
    /\ d.fetch = "ok"
    /\ d.bal.TotalAssets.t = "num" /\ d.bal.TotalLiabilities.t = "num"
    /\ d.bal.TotalAssets.v - d.bal.TotalLiabilities.v < 0

IsMissing(f) == f.t \in {"absent", "nan", "raise"}

RatioUndefined(d) ==
    \/ d.fetch = "raise"
    \/ IsMissing(d.inc.OperatingIncome) \/ IsMissing(d.bal.TotalDebt)
    \/ IsMissing(d.bal.TotalEquity) \/ IsMissing(d.bal.CashAndEquivalents)
    \/ IsMissing(d.bal.TotalAssets) \/ IsMissing(d.bal.TotalLiabilities)
    \/ IsMissing(d.info)
    \/ d.bal.TotalDebt.v + d.bal.TotalEquity.v - d.bal.CashAndEquivalents.v = 0
    \/ d.bal.TotalAssets.v - d.bal.TotalLiabilities.v = 0

\* the first error raised while fetching, normalizing or computing for a
\* ticker, "" when nothing was raised
Failed(d, out) ==
    IF d.fetch = "raise" THEN "statements raised"
    ELSE IF script = "Mark" /\ IsRaised(Mark_compute_roic(d.inc, d.bal, d.ieee))
         THEN Mark_compute_roic(d.inc, d.bal, d.ieee).k
    ELSE IF d.info.t = "raise" THEN "market cap raised"
    ELSE IF script = "Mark"
            /\ IsRaised(Mark_compute_faustmann(Mark_get_market_cap(d.info), d.bal, d.ieee))
         THEN Mark_compute_faustmann(Mark_get_market_cap(d.info), d.bal, d.ieee).k
    ELSE IF out.kind = "raise" THEN "raised"
    ELSE ""

FailedSts == {"statements raised", "market cap raised", "KeyError", "ZeroDivisionError", "raised"}

\* how a ticker ended and, for a ticker that was picked, whether its data
\* left a ratio undefined and whether its net worth was negative
Fact(d, out) ==
    [st |-> IF Failed(d, out) # "" THEN Failed(d, out)
            ELSE IF out.kind = "row" THEN "picked" ELSE "skipped",
     undef |-> out.kind = "row" /\ RatioUndefined(d),
     negnw |-> out.kind = "row" /\ NetWorthNegative(d)]
Unseen == [st |-> "unseen", undef |-> FALSE, negnw |-> FALSE]

\* one ticker done with outcome out; after the last one the table is
\* sorted and returned (returns: the outcomes of that last step)
ScreenAdvance(d, out, returns) ==
    LET tkr == order[idx + 1]
        rows == picks \o out.rows
    IN  /\ facts' = [facts EXCEPT ![tkr] = Fact(d, out)]
        /\ IF out.kind = "raise"
           THEN /\ pc' = "aborted"
                /\ UNCHANGED <<idx, picks, result>>
           ELSE /\ idx' = idx + 1
                /\ picks' = rows
                /\ IF idx + 1 < Len(order)
                   THEN UNCHANGED <<pc, result>>
                   ELSE \E r \in returns :
                          /\ pc' = IF r.status = "ok" THEN "done" ELSE "aborted"
                          /\ result' = r.table
        /\ UNCHANGED <<script, universe, order>>
        /\ UNCHANGED <<ratioVars, labelVars, portVars>>

\* SiegfriedScreener.run, one ticker of the universe at a time
Dao_run ==
    /\ script = "Dao" /\ pc = "loop" /\ idx < Len(order)
    /\ \E d \in Dao_ScreenData \cup {FetchFails} :
         LET out == Dao_evaluate_ticker(order[idx + 1], d)
         IN  ScreenAdvance(d, out, Dao_run_return(picks \o out.rows))

Dao_run_empty ==
    /\ script = "Dao" /\ pc = "loop" /\ Len(order) = 0
    /\ \E r \in Dao_run_return(<<>>) :
         /\ pc' = IF r.status = "ok" THEN "done" ELSE "aborted"
         /\ result' = r.table
    /\ UNCHANGED <<script, universe, order, idx, picks, facts>>
    /\ UNCHANGED <<ratioVars, labelVars, portVars>>

\* screen_universe, one ticker of the universe at a time
Mark_screen_universe ==
    /\ script = "Mark" /\ pc = "loop" /\ idx < Len(order)
    /\ \E d \in ScreenData \cup {FetchFails} :
         LET out == Mark_loop_body(order[idx + 1], d)
         IN  ScreenAdvance(d, out, Mark_screen_return(picks \o out.rows))

Mark_screen_universe_empty ==
    /\ script = "Mark" /\ pc = "loop" /\ Len(order) = 0
    /\ \E r \in Mark_screen_return(<<>>) :
         /\ pc' = IF r.status = "ok" THEN "done" ELSE "aborted"
         /\ result' = r.table
    /\ UNCHANGED <<script, universe, order, idx, picks, facts>>
    /\ UNCHANGED <<ratioVars, labelVars, portVars>>

---------------------------------------------------------------------------
(* Portfolio allocator: Portfolio.target_equal_weight, rebalance_job *)

MaxPicks == 7

\* ticker 0 is never a candidate; tickers 1..MaxPicks are
Candidates == 1..MaxPicks
Prices == {100, 30000}
StartCash == {0, 85000, PORTFOLIO_EQUITY}
StartPositions ==
    {<<>>, (1 :> 150), (0 :> 1000), (0 :> 1000) @@ (1 :> 150)}

Held(pos, tkr) == IF tkr \in DOMAIN pos THEN pos[tkr] ELSE 0

RECURSIVE SumValue(_, _, _)
SumValue(pos, price, todo) ==
    IF todo = {} THEN 0
    ELSE LET t == CHOOSE x \in todo : TRUE
         IN  pos[t] * price[t] + SumValue(pos, price, todo \ {t})

\* Portfolio.market_value
market_value(pos, price) == SumValue(pos, price, DOMAIN pos)

\* an allocation that forgets the 1/n side of the min
AllocPer_capOnly(n) == [num |-> POSITION_MAX_PCT, den |-> 100]

\* min(POSITION_MAX_PCT, 1.0 / n) as a fraction num/den
AllocPer(n) ==
    IF POSITION_MAX_PCT * n <= 100
    THEN [num |-> POSITION_MAX_PCT, den |-> 100]
    ELSE [num |-> 1, den |-> n]

\* target_dollars // price
QtyTarget(alloc, total, p) == (alloc.num * total) \div (alloc.den * p)

\* the for loop over picks.iterrows(), from row i on
RECURSIVE BuildOrders(_, _, _, _, _, _)
BuildOrders(tickers, price, pos, alloc, total, i) ==
    IF i > Len(tickers) THEN <<>>
    ELSE LET tkr == tickers[i]
             delta == QtyTarget(alloc, total, price[tkr]) - Held(pos, tkr)
             rest == BuildOrders(tickers, price, pos, alloc, total, i + 1)
         IN  IF delta # 0
             THEN <<[ticker |-> tkr, qty |-> delta, price |-> price[tkr]]>> \o rest
             ELSE rest

\* Portfolio.target_equal_weight: the orders it prints
target_equal_weight(c, pos, tickers, price) ==
    IF tickers = <<>> THEN <<>>
    ELSE BuildOrders(tickers, price, pos, AllocPer(Len(tickers)),
                     c + market_value(pos, price), 1)

RECURSIVE OrdersCost(_, _)
OrdersCost(ords, i) ==
    IF i > Len(ords) THEN 0 ELSE ords[i].qty * ords[i].price + OrdersCost(ords, i + 1)

\* an allocator that hands every order to Broker.execute and books it
PortfolioAfter_executing(c, pos, ords) ==
    [cash |-> c - OrdersCost(ords, 1),
     positions |-> [t \in DOMAIN pos \cup {ords[i].ticker : i \in 1..Len(ords)} |->
                      Held(pos, t) + (IF \E i \in 1..Len(ords) : ords[i].ticker = t
                                      THEN (CHOOSE o \in {ords[i] : i \in 1..Len(ords)} :
                                              o.ticker = t).qty
                                      ELSE 0)],
     executed |-> Len(ords)]

\* what target_equal_weight leaves in the Portfolio and how often it calls
\* Broker.execute: it assigns no attribute and the call is still a TODO
PortfolioAfter(c, pos, ords) == [cash |-> c, positions |-> pos, executed |-> 0]

\* the tickers a price is asked of
Quoted == {0} \cup Candidates

\* one run of the allocator over the candidate table with these tickers
Run(tickers) ==
    LET ords == target_equal_weight(cash, positions, tickers, quote)
        after == PortfolioAfter(cash, positions, ords)
    IN  /\ orders' = ords
        /\ cash' = after.cash
        /\ positions' = after.positions
        /\ executed' = executed + after.executed
        /\ lastPicks' = tickers
        /\ ran' = TRUE
        /\ UNCHANGED quote
        /\ UNCHANGED <<ratioVars, labelVars, screenVars>>

\* port.target_equal_weight(picks) called on any candidate table
Call_target_equal_weight ==
    \E n \in 0..MaxPicks : Run([i \in 1..n |-> i])

\* rebalance_job: the allocator runs only when the screener found candidates
rebalance_job ==
    \E n \in 0..MaxPicks :
      IF n = 0
      THEN /\ lastPicks' = <<>>
           /\ orders' = <<>>
           /\ ran' = TRUE
           /\ UNCHANGED <<cash, positions, executed, quote>>
           /\ UNCHANGED <<ratioVars, labelVars, screenVars>>
      ELSE Run([i \in 1..n |-> i])

---------------------------------------------------------------------------
(* Specifications: one per component, the other components at rest *)

NoFacts == [t \in Tickers |-> Unseen]
NoPrices == [t \in Quoted |-> 100]

RatioInit ==
    /\ rc = NoCall
    /\ lc = [NoLookup EXCEPT !.fn = "off"]
    /\ script = "Dao" /\ universe = <<>> /\ order = <<>> /\ idx = 0 /\ picks = <<>>
    /\ facts = NoFacts /\ result = <<>> /\ pc = "off"
    /\ cash = PORTFOLIO_EQUITY /\ positions = <<>> /\ lastPicks = <<>>
    /\ quote = NoPrices /\ orders = <<>> /\ executed = 0 /\ ran = FALSE

RatioNext ==
    \/ Call_Dao_compute_roic
    \/ Call_Mark_compute_roic
    \/ Call_Mini_compute_roic
    \/ Call_Dao_compute_faustmann_ratio
    \/ Call_Mark_compute_faustmann
    \/ Call_Mini_compute_faustmann

SpecRatio == RatioInit /\ [][RatioNext]_vars

LabelInit ==
    /\ rc = [NoCall EXCEPT !.fn = "off"]
    /\ lc = NoLookup
    /\ script = "Dao" /\ universe = <<>> /\ order = <<>> /\ idx = 0 /\ picks = <<>>
    /\ facts = NoFacts /\ result = <<>> /\ pc = "off"
    /\ cash = PORTFOLIO_EQUITY /\ positions = <<>> /\ lastPicks = <<>>
    /\ quote = NoPrices /\ orders = <<>> /\ executed = 0 /\ ran = FALSE

LabelNext ==
    \/ Call_find_index_label
    \/ Call_Mini_find_index_label

SpecLabel == LabelInit /\ [][LabelNext]_vars

\* a screening run about to start: SiegfriedScreener(universe) constructed,
\* or screen_universe entered with the universe scraped.  The tickers are
\* numbered by their place in the universe as given.
ScreenInit ==
    /\ rc = [NoCall EXCEPT !.fn = "off"]
    /\ lc = [NoLookup EXCEPT !.fn = "off"]
    /\ script \in {"Dao", "Mark"}
    /\ \E n \in 0..MaxUniverse : universe = [i \in 1..n |-> i]
    /\ order \in IF script = "Dao" THEN Dao_init_universe(universe) ELSE {universe}
    /\ idx = 0
    /\ picks = <<>>
    /\ facts = NoFacts
    /\ result = <<>>
    /\ pc = "loop"
    /\ cash = PORTFOLIO_EQUITY /\ positions = <<>> /\ lastPicks = <<>>
    /\ quote = NoPrices /\ orders = <<>> /\ executed = 0 /\ ran = FALSE

ScreenNext ==
    \/ Dao_run
    \/ Dao_run_empty
    \/ Mark_screen_universe
    \/ Mark_screen_universe_empty

SpecScreen == ScreenInit /\ [][ScreenNext]_vars

\* a Portfolio constructed (and possibly holding positions), the market at
\* some prices
PortInit ==
    /\ rc = [NoCall EXCEPT !.fn = "off"]
    /\ lc = [NoLookup EXCEPT !.fn = "off"]
    /\ script = "Dao" /\ universe = <<>> /\ order = <<>> /\ idx = 0 /\ picks = <<>>
    /\ facts = NoFacts /\ result = <<>> /\ pc = "off"
    /\ cash \in StartCash
    /\ positions \in StartPositions
    /\ quote \in [Quoted -> Prices]
    /\ lastPicks = <<>>
    /\ orders = <<>>
    /\ executed = 0
    /\ ran = FALSE

PortNext ==
    \/ Call_target_equal_weight
    \/ rebalance_job

SpecPortfolio == PortInit /\ [][PortNext]_vars

---------------------------------------------------------------------------
(* Properties *)

PosIn(seq, x) == CHOOSE i \in 1..Len(seq) : seq[i] = x

\* a <= b and a = b for two float results that are numbers or infinities
FloatLeq(a, b) ==
    \/ a.k = "ninf"
    \/ b.k = "inf"
    \/ a.k = "num" /\ b.k = "num" /\ a.n * b.d <= b.n * a.d
FloatEq(a, b) ==
    \/ a.k = b.k /\ a.k \in {"inf", "ninf"}
    \/ a.k = "num" /\ b.k = "num" /\ a.n * b.d = b.n * a.d

(* C1: a screening run never aborts because of one ticker: whatever is
   raised while fetching, normalizing or computing for a ticker, the run
   ends normally, that ticker is not in the output, and every other ticker
   is in the output exactly when it qualifies on its own data. *)
C1_FailureIsolation ==
    /\ pc # "aborted"
    /\ pc = "done" =>
         \A t \in {universe[i] : i \in 1..Len(universe)} :
           /\ facts[t].st \in FailedSts => ~(\E i \in 1..Len(result) : result[i].ticker = t)
           /\ facts[t].st = "picked" <=> \E i \in 1..Len(result) : result[i].ticker = t

(* C2: every row of the returned table has a finite ROIC and a finite
   Faustmann Ratio, and no row belongs to a ticker whose ratio is undefined
   (zero denominator, missing input, missing market cap). *)
C2_RatiosDefinedAndFinite ==
    pc = "done" =>
      \A i \in 1..Len(result) :
        /\ IsFinite(result[i].roic)
        /\ IsFinite(result[i].fr)
        /\ ~facts[result[i].ticker].undef

(* C3: the returned table is sorted ascending by Faustmann Ratio (each row's
   ratio is at most the next row's), and a run whose loop ends with no
   qualifying ticker, the empty universe included, returns the empty table
   without an error. *)
C3_SortedAscending ==
    /\ pc = "done" =>
         \A i \in 1..(Len(result) - 1) : FloatLeq(result[i].fr, result[i + 1].fr)
    /\ (pc # "loop" /\ idx = Len(order) /\ picks = <<>>) =>
         (pc = "done" /\ result = <<>>)

\* a finished run whose sort moved a row: two rows with different ratios
\* come out in another order than they were collected in
C3_Witness ==
    /\ pc = "done" /\ Len(result) >= 2
    /\ ~FloatEq(result[1].fr, result[2].fr)
    /\ result # picks

(* C4: a ticker whose net worth (total assets - total liabilities) is
   negative is never in the returned table. *)
C4_NegativeNetWorthExcluded ==
    pc = "done" => \A i \in 1..Len(result) : ~facts[result[i].ticker].negnw

(* C9: two rows of the returned table with equal Faustmann Ratios are in the
   order their tickers have in the universe given to the screener. *)
C9_StableTieBreak ==
    pc = "done" =>
      \A i, j \in 1..Len(result) :
        (i < j /\ FloatEq(result[i].fr, result[j].fr)) =>
          PosIn(universe, result[i].ticker) < PosIn(universe, result[j].ticker)

(* C6: with a zero denominator the ratio functions return the undefined
   marker NaN, never an infinity and never an exception: compute_roic when
   total debt + total equity - cash = 0, the Faustmann function when total
   assets = total liabilities, whatever the numerator. *)
C6_ZeroDenominatorUndefined ==
    /\ (/\ rc.fn \in RoicFns
        /\ rc.bal.TotalDebt.t = "num" /\ rc.bal.TotalEquity.t = "num"
        /\ rc.bal.CashAndEquivalents.t = "num"
        /\ rc.bal.TotalDebt.v + rc.bal.TotalEquity.v - rc.bal.CashAndEquivalents.v = 0)
         => rc.ret = NaN
    /\ (/\ rc.fn \in FrFns
        /\ rc.bal.TotalAssets.t = "num" /\ rc.bal.TotalLiabilities.t = "num"
        /\ rc.bal.TotalAssets.v = rc.bal.TotalLiabilities.v)
         => rc.ret = NaN

(* C7: with a required input missing (operating income, total debt, total
   equity or cash for ROIC; market cap, total assets or total liabilities
   for the Faustmann Ratio) the ratio function raises nothing and returns
   the undefined marker NaN, not a number; a missing cash is not taken as 0. *)
C7_MissingInputUndefined ==
    /\ (/\ rc.fn \in RoicFns
        /\ \/ IsMissing(rc.inc.OperatingIncome) \/ IsMissing(rc.bal.TotalDebt)
           \/ IsMissing(rc.bal.TotalEquity) \/ IsMissing(rc.bal.CashAndEquivalents))
         => rc.ret = NaN
    /\ (/\ rc.fn \in FrFns
        /\ \/ IsMissing(rc.info) \/ IsMissing(rc.bal.TotalAssets)
           \/ IsMissing(rc.bal.TotalLiabilities))
         => rc.ret = NaN

(* C8: find_index_label returns the first label, in the order of the series'
   index, whose lower-cased text contains every keyword; when no label does
   it raises KeyError naming the keywords, after printing the labels the
   series has; the series is the same afterwards. *)
C8_FindIndexLabel ==
    lc.fn \in {"find_index_label", "Mini_find_index_label"} =>
      LET hits == {i \in 1..Len(lc.series) :
                     \A j \in 1..Len(lc.keywords) :
                       SubstringOf(lc.keywords[j], lower(lc.series[i]))}
      IN  /\ hits # {} =>
               /\ lc.out.kind = "return"
               /\ \E i \in hits : /\ \A h \in hits : i <= h
                                  /\ lc.out.label = lc.series[i]
          /\ hits = {} =>
               /\ lc.out.kind = "KeyError"
               /\ lc.out.keywords = lc.keywords
               /\ lc.out.printed = lc.series
          /\ lc.after = lc.series

\* a lookup with two keywords that passes over the first label and returns
\* a later one, which matches only once lower-cased
C8_Witness ==
    /\ lc.fn = "find_index_label" /\ Len(lc.keywords) = 2 /\ Len(lc.series) = 2
    /\ lc.keywords[1] # lc.keywords[2]
    /\ lc.out.kind = "return" /\ lc.out.label = lc.series[2]
    /\ lc.series[1] # lc.series[2]
    /\ \E i \in 1..Len(lc.out.label) : lc.out.label[i] = "B"

(* C5: after a run of target_equal_weight over n candidates, with fraction =
   min(position_max_pct, 1/n) and target_dollars = fraction * (cash + market
   value of the positions), there is an order {ticker, qty, price} for a
   candidate exactly when qty = floor(target_dollars / price) - shares held
   is not 0; the orders are in the order of the candidates; no candidates,
   no orders. *)
C5_OrdersByFormula ==
    ran =>
      LET n == Len(lastPicks)
          total == cash + market_value(positions, quote)
          capped == POSITION_MAX_PCT * n <= 100
          Floor(t) == IF capped THEN (POSITION_MAX_PCT * total) \div (100 * quote[t])
                      ELSE total \div (n * quote[t])
          Qty(t) == Floor(t) - (IF t \in DOMAIN positions THEN positions[t] ELSE 0)
      IN  /\ n = 0 => orders = <<>>
          /\ \A i \in 1..n :
               Qty(lastPicks[i]) # 0 <=>
                 \E k \in 1..Len(orders) : orders[k].ticker = lastPicks[i]
          /\ \A k \in 1..Len(orders) :
               /\ orders[k].ticker \in {lastPicks[i] : i \in 1..n}
               /\ orders[k].qty = Qty(orders[k].ticker)
               /\ orders[k].price = quote[orders[k].ticker]
          /\ \A k, l \in 1..Len(orders) :
               k < l => PosIn(lastPicks, orders[k].ticker) < PosIn(lastPicks, orders[l].ticker)

\* a run over seven candidates (so 1/n is below the cap) that sells a held
\* candidate, buys others and emits nothing for a candidate too dear
C5_Witness ==
    /\ ran /\ Len(lastPicks) = MaxPicks /\ POSITION_MAX_PCT * Len(lastPicks) > 100
    /\ \E k \in 1..Len(orders) : orders[k].qty < 0
    /\ \E k \in 1..Len(orders) : orders[k].qty > 0
    /\ Len(orders) < Len(lastPicks)

(* C10: a run of rebalance_job or target_equal_weight changes neither
   Portfolio.cash nor Portfolio.positions and never calls Broker.execute, so
   a run over the same candidates and prices as the run before it emits the
   same orders. *)
C10_StatelessAllocator ==
    [][/\ cash' = cash
       /\ positions' = positions
       /\ executed' = 0
       /\ (ran /\ lastPicks' = lastPicks /\ quote' = quote) => orders' = orders]_vars

\* a Portfolio holding positions for which a run has emitted orders
C10_Witness ==
    /\ ran /\ positions # <<>> /\ Len(orders) >= 2 /\ executed = 0
    /\ \E k \in 1..Len(orders) : orders[k].ticker \in DOMAIN positions

===========================================================================
